---- MODULE Spec2Model ----
(***************************************************************************)
(* Model of the cargo allocation planner and the in-memory inventory      *)
(* ledger of src/cxcx.py (the other files of src/ repeat the planner).    *)
(*                                                                         *)
(* Numbers: the code computes with Python floats and ints; the model uses *)
(* integers.  Volumes of cargo units are counted in hundredths of a cubic *)
(* metre, so the documented 0.01 / 0.02 / 0.03 are 1 / 2 / 3.             *)
(***************************************************************************)
EXTENDS Integers, Sequences, FiniteSets, TLC

(***************************************************************************)
(* Bounds of the model.                                                    *)
(***************************************************************************)
\* usage_limit of a request ranges over -1..MaxLimit, and the documented 10
MaxLimit == 2
\* the number of request-handling threads of the concurrent specification
NumThreads == 2
\* usage_limit of a request of the concurrent specification: 1..MaxConcLimit
MaxConcLimit == 2
\* the cargo table of a planning call holds at most MaxUnits rows
MaxUnits == 3

VARIABLES
    heap,       \* the item dicts allocated so far (cxcx.py:153-165), by reference
    inventory,  \* the global dict `inventory` (cxcx.py:127): ordered key -> reference
    last,       \* the response of the call that completed last
    hist,       \* history: successful add_item calls per id, successful use_item calls per item dict
    threads,    \* concurrent specification: each worker thread's position and locals
    all_cargo,        \* planner: the rows of the cargo table, in the order the query returns them
    max_weight,       \* planner: the query parameter max_weight
    max_volume,       \* planner: the query parameter max_volume
    pending,          \* planner: the part of the sorted list the loop has yet to visit
    optimized_cargo,  \* planner: the local list optimized_cargo
    total_weight,     \* planner: the local total_weight
    total_volume,     \* planner: the local total_volume
    visited,          \* planner history: each unit visited, the totals it met and the decision
    result,           \* planner: the returned body
    ppc               \* planner: the handler's position

ledgerVars == <<heap, inventory, last, hist, threads>>

plannerVars == <<all_cargo, max_weight, max_volume, pending, optimized_cargo,
                 total_weight, total_volume, visited, result, ppc>>

vars == <<ledgerVars, plannerVars>>

(***************************************************************************)
(* Inputs of add_item.                                                     *)
(***************************************************************************)
Ids == {"a", "b"}

\* the ids of the specification of the read operations
ViewIds == Ids \cup {"c"}

\* (name, category, location, width, height, depth, mass) of a request; the
\* dimensions and the mass are plain floats: nothing keeps them >= 0
Profiles ==
    { [name |-> "n1", category |-> "c1", location |-> "l1",
       width |-> 2, height |-> 0, depth |-> 3, mass |-> 1],
      [name |-> "n2", category |-> "c2", location |-> "l2",
       width |-> 2, height |-> 2, depth |-> 3, mass |-> 4],
      [name |-> "n3", category |-> "c1", location |-> "l1",
       width |-> 1, height |-> -1, depth |-> 5, mass |-> -1] }

\* usage_limit is a plain int parameter: nothing keeps it positive
UsageLimits == (-1 .. MaxLimit) \cup {10}

Request(id, p, limit) ==
    [item_id |-> id, name |-> p.name, category |-> p.category,
     location |-> p.location, width |-> p.width, height |-> p.height,
     depth |-> p.depth, mass |-> p.mass, usage_limit |-> limit]

Requests == { Request(id, p, l) : id \in Ids, p \in Profiles, l \in UsageLimits }

(***************************************************************************)
(* The ordered dict `inventory`: a sequence of (key, reference) in         *)
(* insertion order; assigning to a key that is present keeps its place.    *)
(***************************************************************************)
Keys(inv) == { inv[i].key : i \in 1 .. Len(inv) }

Lookup(inv, k) == (CHOOSE i \in 1 .. Len(inv) : inv[i].key = k)

Get(inv, k) == inv[Lookup(inv, k)].ref

Put(inv, k, r) ==
    IF k \in Keys(inv)
    THEN [inv EXCEPT ![Lookup(inv, k)] = [key |-> k, ref |-> r]]
    ELSE Append(inv, [key |-> k, ref |-> r])

\* `item_id in inventory`
IdExists(inv, k) == k \in Keys(inv)

\* the item dict the ledger holds for a live id
Unit(id) == heap[Get(inventory, id)]

(***************************************************************************)
(* add_item: derived volume and the stored dict.                           *)
(***************************************************************************)
\* the volume without the 2-D case: a zero height gives a zero volume
VolumeProduct(width, height, depth) == width * height * depth

Volume(width, height, depth) ==
    IF height > 0 THEN width * height * depth ELSE width * depth

\* the unit starts with one use more than its limit
NewItemOneExtra(r) ==
    [name |-> r.name, category |-> r.category, location |-> r.location,
     width |-> r.width, height |-> r.height, depth |-> r.depth,
     mass |-> r.mass, usage_limit |-> r.usage_limit,
     remaining_uses |-> r.usage_limit + 1,
     volume |-> Volume(r.width, r.height, r.depth),
     sensor_status |-> "Nominal"]

NewItem(r) ==
    [name |-> r.name, category |-> r.category, location |-> r.location,
     width |-> r.width, height |-> r.height, depth |-> r.depth,
     mass |-> r.mass, usage_limit |-> r.usage_limit,
     remaining_uses |-> r.usage_limit,
     volume |-> Volume(r.width, r.height, r.depth),
     sensor_status |-> "Nominal"]

(***************************************************************************)
(* use_item: the guard of the decrement and the alert test.                *)
(* 0.1 * usage_limit is a double; for an int r and an int limit below 2^50 *)
(* the comparison r <= 0.1 * limit has the truth value of 10 * r <= limit: *)
(* the double 0.1 lies above one tenth by less than 6e-18, so the product  *)
(* rounds to at least r when limit = 10 * r, and stays below r - 0.09 when *)
(* limit < 10 * r.                                                         *)
(***************************************************************************)
\* off by one: a unit with no use left is still decremented
CanUseOffByOne(item) == item.remaining_uses >= 0

CanUse(item) == item.remaining_uses > 0

\* the threshold itself does not alert
NearLimitStrict(remaining, limit) == 10 * remaining < limit

\* the alert fires only on the call that crosses the threshold
NearLimitOnce(remaining, limit) ==
    10 * remaining <= limit /\ 10 * (remaining + 1) > limit

NearLimit(remaining, limit) == 10 * remaining <= limit

(***************************************************************************)
(* Responses.  An HTTPException is its status code and what its detail     *)
(* says; a returned body is status 200.                                    *)
(***************************************************************************)
Response(op, id, code, detail, alert, remaining) ==
    [op |-> op, item_id |-> id, status_code |-> code, detail |-> detail,
     alert |-> alert, remaining |-> remaining]

NoResponse == Response("none", "", 0, "", "None", 0)

Added(id) == Response("add_item", id, 200, "added", "None", 0)

\* HTTPException(400, "Item ID already exists."): DuplicateIdentifier
AlreadyExists(id) == Response("add_item", id, 400, "exists", "None", 0)

\* HTTPException(404, "Item not found."): NotFound
NotFound(id) == Response("use_item", id, 404, "not_found", "None", 0)

\* HTTPException(400, "... has reached its usage limit."): LimitExhausted
LimitReached(id) == Response("use_item", id, 400, "limit_reached", "None", 0)

\* {"message": "Used ... Remaining uses: n", "alert": alert}
Used(id, item) ==
    Response("use_item", id, 200, "used",
             IF NearLimit(item.remaining_uses, item.usage_limit)
             THEN item.name ELSE "None",
             item.remaining_uses)

(***************************************************************************)
(* History of the successful calls, kept beside the program's state: the   *)
(* successful add_item calls per id, and per item dict the successful      *)
(* use_item calls and the alerts they returned; log[k] is the id under     *)
(* which the k-th item dict was stored.                                    *)
(***************************************************************************)
NoHist == [adds |-> [id \in ViewIds |-> 0], uses |-> << >>, alerts |-> << >>, log |-> << >>]

\* one more successful add_item of id, and a new item dict with no use yet
HistAdd(h, id) ==
    [adds |-> [h.adds EXCEPT ![id] = @ + 1],
     uses |-> Append(h.uses, 0), alerts |-> Append(h.alerts, 0),
     log |-> Append(h.log, id)]

\* one more successful use_item of the item dict ref, with or without an alert
HistUse(h, ref, resp) ==
    [h EXCEPT !.uses[ref] = @ + 1,
              !.alerts[ref] = IF resp.alert = "None" THEN @ ELSE @ + 1]

NoThreads == << >>

\* cxcx.py:127: the ledger starts empty
LedgerInit ==
    /\ heap = << >>
    /\ inventory = << >>
    /\ last = NoResponse
    /\ hist = NoHist

(***************************************************************************)
(* The planner: optimize_storage of cxcx.py:102-124 (ChatGPT.py:76-94 and  *)
(* ChatGPT2.py:106-124 hold the same loop).                                *)
(***************************************************************************)
\* weight and volume are plain floats of the table: nothing keeps them >= 0
CargoWeights == {-1, 0, 2, 5}

CargoVolumes == {0, 1, 2}

\* max_weight and max_volume are required query parameters of any sign
WeightBudgets == {-1, 0, 4, 6}

VolumeBudgets == {-1, 1, 3}

\* a row of the table; id is the primary key, here the row's position
Cargo(id, weight, volume) ==
    [id |-> id, name |-> "cargo", description |-> "None", category |-> "None",
     weight |-> weight, volume |-> volume, fragile |-> FALSE]

\* the tables of at most max rows
CargoTables(max) ==
    UNION { { [i \in 1 .. n |-> Cargo(i, wv[i][1], wv[i][2])] :
              wv \in [1 .. n -> CargoWeights \X CargoVolumes] } : n \in 0 .. max }

\* the key's components swapped: (x.volume, x.weight)
KeyByVolumeFirst(x, y) ==
    \/ x.volume < y.volume
    \/ x.volume = y.volume /\ x.weight <= y.weight

\* the order of the sort key (x.weight, x.volume): tuples compare lexicographically
KeyLessEq(x, y) ==
    \/ x.weight < y.weight
    \/ x.weight = y.weight /\ x.volume <= y.volume

\* sorted() is stable: a unit goes behind every unit already placed whose key
\* is not greater than its own
\* not stable: a unit goes in front of the units already placed with its key
RECURSIVE InsertBeforeEquals(_, _)
InsertBeforeEquals(x, s) ==
    IF s = << >> THEN << x >>
    ELSE IF KeyLessEq(s[1], x) /\ ~ KeyLessEq(x, s[1])
         THEN << s[1] >> \o InsertBeforeEquals(x, Tail(s))
    ELSE << x >> \o s

RECURSIVE InsertByKey(_, _)
InsertByKey(x, s) ==
    IF s = << >> THEN << x >>
    ELSE IF KeyLessEq(s[1], x) THEN << s[1] >> \o InsertByKey(x, Tail(s))
    ELSE << x >> \o s

RECURSIVE SortedByKey(_)
SortedByKey(s) ==
    IF s = << >> THEN << >>
    ELSE InsertByKey(s[Len(s)], SortedByKey(SubSeq(s, 1, Len(s) - 1)))

\* the test of cxcx.py:115
\* the totals are tested before the unit is added to them
FitsBeforeAdd(tw, tv, c, mw, mv) == tw <= mw /\ tv <= mv

\* a unit that would fill a budget exactly is refused
FitsStrict(tw, tv, c, mw, mv) == tw + c.weight < mw /\ tv + c.volume < mv

\* the volume budget is not tested
FitsWeightOnly(tw, tv, c, mw, mv) == tw + c.weight <= mw

Fits(tw, tv, c, mw, mv) == tw + c.weight <= mw /\ tv + c.volume <= mv

\* cxcx.py:120-124, the same projection as format_response (cxcx.py:232-237)
FormatResponse(selection, tw, tv) ==
    [optimized_cargo |->
        [i \in 1 .. Len(selection) |->
            [id |-> selection[i].id, name |-> selection[i].name,
             weight |-> selection[i].weight, volume |-> selection[i].volume]],
     total_weight |-> tw, total_volume |-> tv]

NoResult == FormatResponse(<< >>, 0, 0)

PlannerLocals ==
    /\ pending = << >>
    /\ optimized_cargo = << >>
    /\ total_weight = 0
    /\ total_volume = 0
    /\ visited = << >>
    /\ result = NoResult

\* the planner is not running
PlannerOff ==
    /\ all_cargo = << >>
    /\ max_weight = 0
    /\ max_volume = 0
    /\ ppc = "off"
    /\ PlannerLocals

\* a planning call arrives: the table and the two budgets are its inputs
PlanInit ==
    /\ LedgerInit
    /\ threads = NoThreads
    /\ all_cargo \in CargoTables(MaxUnits)
    /\ max_weight \in WeightBudgets
    /\ max_volume \in VolumeBudgets
    /\ ppc = "start"
    /\ PlannerLocals

\* cxcx.py:109-114: the query, the locals and the sort
PlanStart ==
    /\ ppc = "start"
    /\ pending' = SortedByKey(all_cargo)
    /\ optimized_cargo' = << >>
    /\ total_weight' = 0
    /\ total_volume' = 0
    /\ ppc' = "loop"
    /\ UNCHANGED <<all_cargo, max_weight, max_volume, visited, result>>

\* cxcx.py:114-118: one iteration of the loop
PlanVisit ==
    /\ ppc = "loop"
    /\ pending /= << >>
    /\ LET cargo == Head(pending)
           fits == Fits(total_weight, total_volume, cargo, max_weight, max_volume)
       IN  /\ IF fits
              THEN /\ optimized_cargo' = Append(optimized_cargo, cargo)
                   /\ total_weight' = total_weight + cargo.weight
                   /\ total_volume' = total_volume + cargo.volume
              ELSE UNCHANGED <<optimized_cargo, total_weight, total_volume>>
           /\ visited' = Append(visited, [unit |-> cargo, total_weight |-> total_weight,
                                          total_volume |-> total_volume, accepted |-> fits])
    /\ pending' = Tail(pending)
    /\ UNCHANGED <<all_cargo, max_weight, max_volume, result, ppc>>

\* cxcx.py:120-124: the loop is over, the body is returned
PlanReturn ==
    /\ ppc = "loop"
    /\ pending = << >>
    /\ result' = FormatResponse(optimized_cargo, total_weight, total_volume)
    /\ ppc' = "done"
    /\ UNCHANGED <<all_cargo, max_weight, max_volume, pending, optimized_cargo,
                   total_weight, total_volume, visited>>

PlanNext ==
    \/ PlanStart /\ UNCHANGED ledgerVars
    \/ PlanVisit /\ UNCHANGED ledgerVars
    \/ PlanReturn /\ UNCHANGED ledgerVars

SpecPlan == PlanInit /\ [][PlanNext]_vars

(***************************************************************************)
(* The planner of ChatGPT.py (ChatGPT.py:76-94).  Its Cargo model has the  *)
(* fields id, name, weight, volume and fragile (ChatGPT.py:11-16); its     *)
(* query, sort and loop (ChatGPT.py:82-92) are those of cxcx.py:109-118;   *)
(* its return statement hands the selected Cargo objects themselves to the *)
(* framework, which encodes each with all the fields of the model.         *)
(***************************************************************************)
\* a row of ChatGPT.py's table
ChatGPTCargo(c) ==
    [id |-> c.id, name |-> c.name, weight |-> c.weight, volume |-> c.volume,
     fragile |-> c.fragile]

ChatGPTTables(max) ==
    { [i \in 1 .. Len(table) |-> ChatGPTCargo(table[i])] : table \in CargoTables(max) }

\* ChatGPT.py:94
ChatGPTResponse(selection, tw, tv) ==
    [optimized_cargo |-> selection, total_weight |-> tw, total_volume |-> tv]

ChatGPTInit ==
    /\ LedgerInit
    /\ threads = NoThreads
    /\ all_cargo \in ChatGPTTables(MaxUnits)
    /\ max_weight \in WeightBudgets
    /\ max_volume \in VolumeBudgets
    /\ ppc = "start"
    /\ PlannerLocals

\* ChatGPT.py:94: the loop is over, the body is returned
ChatGPTReturn ==
    /\ ppc = "loop"
    /\ pending = << >>
    /\ result' = ChatGPTResponse(optimized_cargo, total_weight, total_volume)
    /\ ppc' = "done"
    /\ UNCHANGED <<all_cargo, max_weight, max_volume, pending, optimized_cargo,
                   total_weight, total_volume, visited>>

ChatGPTNext ==
    \/ PlanStart /\ UNCHANGED ledgerVars
    \/ PlanVisit /\ UNCHANGED ledgerVars
    \/ ChatGPTReturn /\ UNCHANGED ledgerVars

SpecChatGPT == ChatGPTInit /\ [][ChatGPTNext]_vars

(***************************************************************************)
(* Sequential specification: every call runs to completion alone.          *)
(***************************************************************************)
\* the membership test is missing: the entry is assigned whatever the ledger holds
AddItemNoCheck(r) ==
    /\ heap' = Append(heap, NewItem(r))
    /\ inventory' = Put(inventory, r.item_id, Len(heap) + 1)
    /\ last' = Added(r.item_id)
    /\ hist' = HistAdd(hist, r.item_id)

AddItem(r) ==
    IF IdExists(inventory, r.item_id)
    THEN /\ last' = AlreadyExists(r.item_id)
         /\ UNCHANGED <<heap, inventory, hist>>
    ELSE /\ heap' = Append(heap, NewItem(r))
         /\ inventory' = Put(inventory, r.item_id, Len(heap) + 1)
         /\ last' = Added(r.item_id)
         /\ hist' = HistAdd(hist, r.item_id)

\* the lookup inserts a default entry for an unknown id before it reports it
UseItemAutoCreate(id) ==
    IF ~ IdExists(inventory, id)
    THEN /\ heap' = Append(heap, NewItem(Request(id, CHOOSE p \in Profiles : p.name = "n1", 0)))
         /\ inventory' = Put(inventory, id, Len(heap) + 1)
         /\ last' = NotFound(id)
         /\ hist' = HistAdd(hist, id)
    ELSE LET ref == Get(inventory, id)
             item == heap[ref]
         IN  IF CanUse(item)
             THEN LET after == [item EXCEPT !.remaining_uses = @ - 1]
                  IN  /\ heap' = [heap EXCEPT ![ref] = after]
                      /\ last' = Used(id, after)
                      /\ hist' = HistUse(hist, ref, Used(id, after))
                      /\ UNCHANGED inventory
             ELSE /\ last' = LimitReached(id)
                  /\ UNCHANGED <<heap, inventory, hist>>

\* the use recomputes the derived volume of the unit as the plain product
UseItemRecompute(id) ==
    IF ~ IdExists(inventory, id)
    THEN /\ last' = NotFound(id)
         /\ UNCHANGED <<heap, inventory, hist>>
    ELSE LET ref == Get(inventory, id)
             item == heap[ref]
         IN  IF CanUse(item)
             THEN LET after == [item EXCEPT !.remaining_uses = @ - 1,
                                            !.volume = item.width * item.height * item.depth]
                  IN  /\ heap' = [heap EXCEPT ![ref] = after]
                      /\ last' = Used(id, after)
                      /\ hist' = HistUse(hist, ref, Used(id, after))
                      /\ UNCHANGED inventory
             ELSE /\ last' = LimitReached(id)
                  /\ UNCHANGED <<heap, inventory, hist>>

UseItem(id) ==
    IF ~ IdExists(inventory, id)
    THEN /\ last' = NotFound(id)
         /\ UNCHANGED <<heap, inventory, hist>>
    ELSE LET ref == Get(inventory, id)
             item == heap[ref]
         IN  IF CanUse(item)
             THEN LET after == [item EXCEPT !.remaining_uses = @ - 1]
                  IN  /\ heap' = [heap EXCEPT ![ref] = after]
                      /\ last' = Used(id, after)
                      /\ hist' = HistUse(hist, ref, Used(id, after))
                      /\ UNCHANGED inventory
             ELSE /\ last' = LimitReached(id)
                  /\ UNCHANGED <<heap, inventory, hist>>

SeqInit == LedgerInit /\ threads = NoThreads /\ PlannerOff

SeqNext ==
    \/ \E r \in Requests : AddItem(r) /\ UNCHANGED <<threads, plannerVars>>
    \/ \E id \in Ids : UseItem(id) /\ UNCHANGED <<threads, plannerVars>>

SpecSeq == SeqInit /\ [][SeqNext]_vars

\* the calls run one at a time and, for each id, use_item calls keep coming:
\* a use that would change the state is not put off for ever
SpecSeqFair ==
    /\ SeqInit
    /\ [][SeqNext]_vars
    /\ \A id \in Ids : WF_vars(UseItem(id) /\ UNCHANGED <<threads, plannerVars>>)

(***************************************************************************)
(* The read operations: check_storage (cxcx.py:189-197), view_items        *)
(* (cxcx.py:200-205) and the inventory's optimize_storage (cxcx.py:208-    *)
(* 227).  A returned body is tagged with its shape: the keys it has.       *)
(***************************************************************************)
\* inventory.values(): the item dicts in insertion order
Values(inv, hp) == [i \in 1 .. Len(inv) |-> hp[inv[i].ref]]

\* sum(item[field] for item in items)
RECURSIVE SumOver(_, _)
SumOver(items, field) ==
    IF items = << >> THEN 0 ELSE items[1][field] + SumOver(Tail(items), field)

\* a 200 response with a body
Body(op, body) ==
    [op |-> op, item_id |-> "", status_code |-> 200, detail |-> "", alert |-> "None",
     remaining |-> 0, body |-> body]

\* cxcx.py:192-197
StatusBody(total_vol, total_mass) ==
    [shape |-> "totals", total_volume |-> total_vol, total_mass |-> total_mass]

CheckStorageBody(inv, hp) ==
    StatusBody(SumOver(Values(inv, hp), "volume"), SumOver(Values(inv, hp), "mass"))

\* cxcx.py:203-205: a message for an empty ledger, else the dict itself
ViewItemsBody(inv, hp) ==
    IF inv = << >>
    THEN [shape |-> "message", message |-> "No items in the inventory."]
    ELSE [shape |-> "inventory",
          items |-> [i \in 1 .. Len(inv) |-> [key |-> inv[i].key, item |-> hp[inv[i].ref]]]]

\* a known category moves to the end when it gets a name: last-seen order
AddToCategoryLastSeen(categories, item) ==
    IF \E i \in 1 .. Len(categories) : categories[i].category = item.category
    THEN LET i == CHOOSE i \in 1 .. Len(categories) : categories[i].category = item.category
         IN  Append(SubSeq(categories, 1, i - 1) \o SubSeq(categories, i + 1, Len(categories)),
                    [category |-> item.category, items |-> Append(categories[i].items, item.name)])
    ELSE Append(categories, [category |-> item.category, items |-> << item.name >>])

\* cxcx.py:217-220: the dict `categories` after one more item; a new category
\* goes last, a known one keeps its place and gets the name appended
AddToCategory(categories, item) ==
    IF \E i \in 1 .. Len(categories) : categories[i].category = item.category
    THEN LET i == CHOOSE i \in 1 .. Len(categories) : categories[i].category = item.category
         IN  [categories EXCEPT ![i].items = Append(@, item.name)]
    ELSE Append(categories, [category |-> item.category, items |-> << item.name >>])

\* cxcx.py:215-220: the loop over inventory.values()
RECURSIVE GroupByCategory(_)
GroupByCategory(items) ==
    IF items = << >> THEN << >>
    ELSE AddToCategory(GroupByCategory(SubSeq(items, 1, Len(items) - 1)), items[Len(items)])

\* the empty ledger is not a case of its own: no groups
SuggestionsBodyUniform(inv, hp) ==
    [shape |-> "suggestions", suggestions |-> GroupByCategory(Values(inv, hp)),
     note |-> "Place high-usage items in easily accessible locations for efficiency."]

\* cxcx.py:211-227: a message for an empty ledger, else the groups and a note
SuggestionsBody(inv, hp) ==
    IF inv = << >>
    THEN [shape |-> "message", message |-> "No items to optimize."]
    ELSE [shape |-> "suggestions", suggestions |-> GroupByCategory(Values(inv, hp)),
          note |-> "Place high-usage items in easily accessible locations for efficiency."]

CheckStorage ==
    /\ last' = Body("check_storage", CheckStorageBody(inventory, heap))
    /\ UNCHANGED <<heap, inventory, hist>>

ViewItems ==
    /\ last' = Body("view_items", ViewItemsBody(inventory, heap))
    /\ UNCHANGED <<heap, inventory, hist>>

\* the handler of GET /inventory/optimize, the module's second optimize_storage
InventoryOptimize ==
    /\ last' = Body("optimize_storage", SuggestionsBody(inventory, heap))
    /\ UNCHANGED <<heap, inventory, hist>>

\* the profiles of the specification of the read operations: a name is not
\* tied to a category
ViewProfiles ==
    Profiles \cup { [name |-> "n1", category |-> "c2", location |-> "l2",
                     width |-> 1, height |-> 1, depth |-> 1, mass |-> 2] }

\* the requests of the specification of the read operations
ViewRequests == { Request(id, p, 1) : id \in ViewIds, p \in ViewProfiles }

ViewInit == LedgerInit /\ threads = NoThreads /\ PlannerOff

ViewNext ==
    \/ \E r \in ViewRequests : AddItem(r) /\ UNCHANGED <<threads, plannerVars>>
    \/ \E id \in ViewIds : UseItem(id) /\ UNCHANGED <<threads, plannerVars>>
    \/ CheckStorage /\ UNCHANGED <<threads, plannerVars>>
    \/ ViewItems /\ UNCHANGED <<threads, plannerVars>>
    \/ InventoryOptimize /\ UNCHANGED <<threads, plannerVars>>

SpecView == ViewInit /\ [][ViewNext]_vars

(***************************************************************************)
(* Concurrent specification.  The handlers are plain `def` functions, so   *)
(* the framework runs each request on a worker thread; nothing in the      *)
(* module takes a lock.  A thread can be preempted between any two         *)
(* accesses of the shared dicts, so each access is a step of its own:      *)
(* `item["remaining_uses"] -= 1` is a load followed by a store, and each    *)
(* `sum(... for item in inventory.values())` of check_storage is one       *)
(* iterator over the dict, advanced one entry at a time.  A dict iterator  *)
(* remembers the size of the dict it was made for and raises RuntimeError  *)
(* ("dictionary changed size during iteration") from the first `next`      *)
(* that finds another size; the handler does not catch it, so the call     *)
(* answers 500.                                                            *)
(***************************************************************************)
Threads == 1 .. NumThreads

ConcIds == {"a"}

ConcProfiles == { p \in Profiles : p.height >= 0 }

ConcRequests ==
    { Request(id, p, l) : id \in ConcIds, p \in ConcProfiles, l \in 1 .. MaxConcLimit }

NoRequest == Request("", CHOOSE p \in Profiles : p.name = "n1", 0)

\* a thread: its position, the item_id of its call, the arguments of an
\* add_item call, the local `item` (a reference), the loaded operand or the
\* running sum, the position and the remembered size of its dict iterator,
\* and the local total_volume
Idle == [pc |-> "idle", id |-> "", req |-> NoRequest, item |-> 0, tmp |-> 0,
         pos |-> 0, size |-> 0, total_volume |-> 0]

ConcInit == LedgerInit /\ threads = [t \in Threads |-> Idle] /\ PlannerOff

\* a request for add_item arrives and is given to an idle thread
BeginAdd(t, r) ==
    /\ threads[t].pc = "idle"
    /\ threads' = [threads EXCEPT ![t] = [Idle EXCEPT !.pc = "add_check", !.id = r.item_id, !.req = r]]
    /\ UNCHANGED <<heap, inventory, last, hist>>

\* cxcx.py:143-144
AddCheck(t) ==
    /\ threads[t].pc = "add_check"
    /\ IF IdExists(inventory, threads[t].id)
       THEN /\ last' = AlreadyExists(threads[t].id)
            /\ threads' = [threads EXCEPT ![t] = Idle]
       ELSE /\ threads' = [threads EXCEPT ![t].pc = "add_store"]
            /\ UNCHANGED last
    /\ UNCHANGED <<heap, inventory, hist>>

\* cxcx.py:147-166
AddStore(t) ==
    /\ threads[t].pc = "add_store"
    /\ heap' = Append(heap, NewItem(threads[t].req))
    /\ inventory' = Put(inventory, threads[t].id, Len(heap) + 1)
    /\ last' = Added(threads[t].id)
    /\ hist' = HistAdd(hist, threads[t].id)
    /\ threads' = [threads EXCEPT ![t] = Idle]

\* a request for use_item arrives and is given to an idle thread
BeginUse(t, id) ==
    /\ threads[t].pc = "idle"
    /\ threads' = [threads EXCEPT ![t] = [Idle EXCEPT !.pc = "use_lookup", !.id = id]]
    /\ UNCHANGED <<heap, inventory, last, hist>>

\* cxcx.py:172-175: no entry is ever deleted, so the membership test and the
\* lookup that follows it see the id present together
UseLookup(t) ==
    /\ threads[t].pc = "use_lookup"
    /\ IF ~ IdExists(inventory, threads[t].id)
       THEN /\ last' = NotFound(threads[t].id)
            /\ threads' = [threads EXCEPT ![t] = Idle]
       ELSE /\ threads' = [threads EXCEPT ![t].pc = "use_check",
                                          ![t].item = Get(inventory, threads[t].id)]
            /\ UNCHANGED last
    /\ UNCHANGED <<heap, inventory, hist>>

\* cxcx.py:176 and 185-186
UseCheck(t) ==
    /\ threads[t].pc = "use_check"
    /\ IF CanUse(heap[threads[t].item])
       THEN /\ threads' = [threads EXCEPT ![t].pc = "use_load"]
            /\ UNCHANGED last
       ELSE /\ last' = LimitReached(threads[t].id)
            /\ threads' = [threads EXCEPT ![t] = Idle]
    /\ UNCHANGED <<heap, inventory, hist>>

\* cxcx.py:177, the load of item["remaining_uses"]
UseLoad(t) ==
    /\ threads[t].pc = "use_load"
    /\ threads' = [threads EXCEPT ![t].pc = "use_store",
                                  ![t].tmp = heap[threads[t].item].remaining_uses]
    /\ UNCHANGED <<heap, inventory, last, hist>>

\* cxcx.py:177, the store of the decremented value
UseStore(t) ==
    /\ threads[t].pc = "use_store"
    /\ heap' = [heap EXCEPT ![threads[t].item].remaining_uses = threads[t].tmp - 1]
    /\ threads' = [threads EXCEPT ![t].pc = "use_return", ![t].tmp = 0]
    /\ UNCHANGED <<inventory, last, hist>>

\* cxcx.py:178-184
UseReturn(t) ==
    /\ threads[t].pc = "use_return"
    /\ last' = Used(threads[t].id, heap[threads[t].item])
    /\ hist' = HistUse(hist, threads[t].item, Used(threads[t].id, heap[threads[t].item]))
    /\ threads' = [threads EXCEPT ![t] = Idle]
    /\ UNCHANGED <<heap, inventory>>

\* the answer to a call whose handler raised an exception it does not catch
ServerError(op) == Response(op, "", 500, "internal_error", "None", 0)

\* a request for check_storage arrives and is given to an idle thread, which
\* makes the iterator of the first sum (cxcx.py:192)
BeginStatus(t) ==
    /\ threads[t].pc = "idle"
    /\ threads' = [threads EXCEPT ![t] = [Idle EXCEPT !.pc = "volume_next",
                                                      !.size = Len(inventory)]]
    /\ UNCHANGED <<heap, inventory, last, hist>>

\* cxcx.py:192, one `next` of the iterator: RuntimeError if the dict has
\* another size, else the next item's volume is added, else the sum is done
VolumeNext(t) ==
    /\ threads[t].pc = "volume_next"
    /\ IF Len(inventory) /= threads[t].size
       THEN /\ last' = ServerError("check_storage")
            /\ threads' = [threads EXCEPT ![t] = Idle]
       ELSE IF threads[t].pos < threads[t].size
       THEN /\ threads' = [threads EXCEPT
                   ![t].tmp = @ + heap[inventory[threads[t].pos + 1].ref].volume,
                   ![t].pos = @ + 1]
            /\ UNCHANGED last
       ELSE /\ threads' = [threads EXCEPT ![t] = [Idle EXCEPT !.pc = "mass_iter",
                                                   !.total_volume = threads[t].tmp]]
            /\ UNCHANGED last
    /\ UNCHANGED <<heap, inventory, hist>>

\* cxcx.py:193, the iterator of the second sum is made
MassIter(t) ==
    /\ threads[t].pc = "mass_iter"
    /\ threads' = [threads EXCEPT ![t].pc = "mass_next", ![t].size = Len(inventory)]
    /\ UNCHANGED <<heap, inventory, last, hist>>

\* cxcx.py:193-197, one `next` of the second iterator; when the sum is done
\* the handler returns both totals
MassNext(t) ==
    /\ threads[t].pc = "mass_next"
    /\ IF Len(inventory) /= threads[t].size
       THEN /\ last' = ServerError("check_storage")
            /\ threads' = [threads EXCEPT ![t] = Idle]
       ELSE IF threads[t].pos < threads[t].size
       THEN /\ threads' = [threads EXCEPT
                   ![t].tmp = @ + heap[inventory[threads[t].pos + 1].ref].mass,
                   ![t].pos = @ + 1]
            /\ UNCHANGED last
       ELSE /\ last' = Body("check_storage",
                            StatusBody(threads[t].total_volume, threads[t].tmp))
            /\ threads' = [threads EXCEPT ![t] = Idle]
    /\ UNCHANGED <<heap, inventory, hist>>

ConcNext ==
    \/ \E t \in Threads, r \in ConcRequests : BeginAdd(t, r) /\ UNCHANGED plannerVars
    \/ \E t \in Threads : AddCheck(t) /\ UNCHANGED plannerVars
    \/ \E t \in Threads : AddStore(t) /\ UNCHANGED plannerVars
    \/ \E t \in Threads, id \in ConcIds : BeginUse(t, id) /\ UNCHANGED plannerVars
    \/ \E t \in Threads : UseLookup(t) /\ UNCHANGED plannerVars
    \/ \E t \in Threads : UseCheck(t) /\ UNCHANGED plannerVars
    \/ \E t \in Threads : UseLoad(t) /\ UNCHANGED plannerVars
    \/ \E t \in Threads : UseStore(t) /\ UNCHANGED plannerVars
    \/ \E t \in Threads : UseReturn(t) /\ UNCHANGED plannerVars
    \/ \E t \in Threads : BeginStatus(t) /\ UNCHANGED plannerVars
    \/ \E t \in Threads : VolumeNext(t) /\ UNCHANGED plannerVars
    \/ \E t \in Threads : MassIter(t) /\ UNCHANGED plannerVars
    \/ \E t \in Threads : MassNext(t) /\ UNCHANGED plannerVars

SpecConc == ConcInit /\ [][ConcNext]_vars

(***************************************************************************)
(* The claims about the ledger.                                            *)
(***************************************************************************)
Live == Keys(inventory)

\* the successful use_item calls made so far on the live unit id
UsesOf(id) == hist.uses[Get(inventory, id)]

\* C1 (SpecConc): concurrent use_item calls never drive remaining_uses of a
\* unit below zero, and no unit has more successful uses than its usage_limit.
C1_ConcurrentUseNeverNegative ==
    \A i \in 1 .. Len(heap) :
        /\ heap[i].remaining_uses >= 0
        /\ hist.uses[i] <= heap[i].usage_limit

\* C2 (SpecSeq): after any sequence of add_item and use_item calls run one at
\* a time, every live unit has 0 <= remaining_uses <= usage_limit.
C2_RemainingWithinLimit ==
    \A id \in Live :
        /\ 0 <= Unit(id).remaining_uses
        /\ Unit(id).remaining_uses <= Unit(id).usage_limit

\* C3 (SpecSeq): an add_item call whose id is live answers 400 "already
\* exists" and changes neither the set of entries nor any field of any unit,
\* whatever the call's other arguments and whatever uses came before.
C3_DuplicateCreateLeavesLedger ==
    [][\A id \in Live : \A p \in Profiles, l \in UsageLimits :
          AddItem(Request(id, p, l))
              => /\ last'.op = "add_item" /\ last'.item_id = id
                 /\ last'.status_code = 400 /\ last'.detail = "exists"
                 /\ heap' = heap
                 /\ inventory' = inventory]_vars

\* a duplicate add_item was just rejected for a unit that had been used, the
\* other id being live too
C3_Witness ==
    /\ last.op = "add_item" /\ last.status_code = 400
    /\ Live = Ids
    /\ Unit(last.item_id).remaining_uses < Unit(last.item_id).usage_limit

\* C4 (SpecConc): of the add_item calls for one id exactly one succeeds, and
\* the entry it wrote is never assigned again: every item dict ever stored is
\* the one its id still maps to.
C4_CreateAtomic ==
    /\ \A id \in Ids : hist.adds[id] <= 1
    /\ Len(heap) = Len(inventory)

\* C5 as stated (SpecSeq): for a unit with usage_limit = 10, the 9th
\* successful use (remaining_uses = 1) returns no alert, the 10th
\* (remaining_uses = 0) an alert, and an 11th call answers 400 "limit
\* reached" with remaining_uses still 0.
C5_NinthUseNoAlert ==
    [][\A id \in Ids :
          (id \in Live /\ Unit(id).usage_limit = 10 /\ UseItem(id))
              => /\ UsesOf(id) = 8 =>
                        /\ last'.status_code = 200 /\ last'.remaining = 1
                        /\ last'.alert = "None"
                 /\ UsesOf(id) = 9 =>
                        /\ last'.status_code = 200 /\ last'.remaining = 0
                        /\ last'.alert /= "None"
                 /\ UsesOf(id) = 10 =>
                        /\ last' = LimitReached(id)
                        /\ heap' = heap /\ Unit(id).remaining_uses = 0]_vars

\* C5 amended (SpecSeq): for a unit with usage_limit = 10, the first 8
\* successful uses return no alert, the 9th (remaining_uses = 1) and the 10th
\* (remaining_uses = 0) return an alert naming the unit, and an 11th call
\* answers 400 "limit reached" with remaining_uses still 0.
C5_NinthUseAlerts ==
    [][\A id \in Ids :
          (id \in Live /\ Unit(id).usage_limit = 10 /\ UseItem(id))
              => /\ UsesOf(id) < 8 =>
                        /\ last'.status_code = 200
                        /\ last'.remaining = 9 - UsesOf(id)
                        /\ last'.alert = "None"
                 /\ UsesOf(id) \in {8, 9} =>
                        /\ last'.status_code = 200
                        /\ last'.remaining = 9 - UsesOf(id)
                        /\ last'.alert = Unit(id).name
                 /\ UsesOf(id) = 10 =>
                        /\ last' = LimitReached(id)
                        /\ heap' = heap /\ Unit(id).remaining_uses = 0]_vars

\* the 11th call on a unit of usage_limit 10 was just refused
C5_Witness ==
    \E id \in Live :
        /\ Unit(id).usage_limit = 10
        /\ UsesOf(id) = 10
        /\ last = LimitReached(id)

\* C6 (SpecSeq): a successful use_item call decrements remaining_uses and
\* returns an alert exactly when 10 * remaining_uses <= usage_limit holds of
\* the decremented value; and once a use of a unit has returned an alert,
\* every later successful use of it returns one too.
C6_AlertIffAtOrBelowTenth ==
    [][\A id \in Ids :
          (UseItem(id) /\ last'.status_code = 200)
              => /\ Unit(id)'.remaining_uses = Unit(id).remaining_uses - 1
                 /\ last'.remaining = Unit(id)'.remaining_uses
                 /\ (last'.alert /= "None")
                        <=> (10 * Unit(id)'.remaining_uses <= Unit(id)'.usage_limit)
                 /\ hist.alerts[Get(inventory, id)] > 0 => last'.alert /= "None"]_vars

\* a unit of usage_limit 10 alerted at remaining_uses 1 and again at 0, and
\* another unit was used without an alert
C6_Witness ==
    \E id \in Live :
        /\ Unit(id).usage_limit = 10
        /\ last.op = "use_item" /\ last.item_id = id /\ last.status_code = 200
        /\ last.remaining = 0 /\ last.alert /= "None"
        /\ hist.alerts[Get(inventory, id)] = 2
        /\ \E other \in Live : UsesOf(other) > 0 /\ hist.alerts[Get(inventory, other)] = 0

\* C7 (SpecSeq): a use_item call on a live unit whose remaining_uses is 0
\* answers 400 "limit reached" and changes no unit and no entry.
C7_ExhaustedUseLeavesLedger ==
    [][\A id \in Ids :
          (id \in Live /\ Unit(id).remaining_uses = 0 /\ UseItem(id))
              => /\ last'.op = "use_item" /\ last'.item_id = id
                 /\ last'.status_code = 400 /\ last'.detail = "limit_reached"
                 /\ heap' = heap
                 /\ inventory' = inventory]_vars

\* a use was just refused on a unit that had uses and has none left, beside
\* another unit that still has some
C7_Witness ==
    \E id \in Live :
        /\ last = LimitReached(id)
        /\ Unit(id).usage_limit > 0 /\ Unit(id).remaining_uses = 0
        /\ \E other \in Live : Unit(other).remaining_uses > 0

\* C8 (SpecSeq): a use_item call with an id that is not in the ledger answers
\* 404 "not found" and changes no unit and no entry: it creates none.
C8_UnknownUseLeavesLedger ==
    [][\A id \in Ids :
          (id \notin Live /\ UseItem(id))
              => /\ last'.op = "use_item" /\ last'.item_id = id
                 /\ last'.status_code = 404 /\ last'.detail = "not_found"
                 /\ heap' = heap
                 /\ inventory' = inventory]_vars

\* a use of an unknown id was just refused while another unit is live
C8_Witness ==
    /\ last.op = "use_item" /\ last.status_code = 404
    /\ last.item_id \notin Live
    /\ Live /= {}

(***************************************************************************)
(* The claims about the planner.                                           *)
(***************************************************************************)
RECURSIVE SumWeights(_)
SumWeights(s) == IF s = << >> THEN 0 ELSE s[1].weight + SumWeights(Tail(s))

RECURSIVE SumVolumes(_)
SumVolumes(s) == IF s = << >> THEN 0 ELSE s[1].volume + SumVolumes(Tail(s))

\* the units of the first n visits that were accepted, in the order visited
RECURSIVE AcceptedAmong(_, _)
AcceptedAmong(v, n) ==
    IF n = 0 THEN << >>
    ELSE IF v[n].accepted THEN Append(AcceptedAmong(v, n - 1), v[n].unit)
    ELSE AcceptedAmong(v, n - 1)

\* both budgets, and every unit's weight and volume, are >= 0
NonNegativeInput ==
    /\ max_weight >= 0
    /\ max_volume >= 0
    /\ \A i \in 1 .. Len(all_cargo) : all_cargo[i].weight >= 0 /\ all_cargo[i].volume >= 0

\* C9 (SpecPlan): for budgets >= 0 and units of weight and volume >= 0, after
\* the sort, after each unit visited and in the returned body, total_weight <=
\* max_weight, total_volume <= max_volume, and the totals are the sums of the
\* weights and of the volumes of the units selected.
C9_TotalsWithinBudgets ==
    NonNegativeInput =>
        /\ total_weight <= max_weight
        /\ total_volume <= max_volume
        /\ total_weight = SumWeights(optimized_cargo)
        /\ total_volume = SumVolumes(optimized_cargo)
        /\ ppc = "done" =>
              /\ result.total_weight <= max_weight
              /\ result.total_volume <= max_volume
              /\ result.total_weight = SumWeights(result.optimized_cargo)
              /\ result.total_volume = SumVolumes(result.optimized_cargo)

\* a call has returned two or more units that fill the weight budget exactly,
\* and left a unit out
C9_Witness ==
    /\ ppc = "done"
    /\ NonNegativeInput
    /\ Len(result.optimized_cargo) >= 2
    /\ Len(result.optimized_cargo) < Len(all_cargo)
    /\ result.total_weight = max_weight

\* C10 (SpecPlan): the units are visited once each in ascending (weight,
\* volume) order; a unit is accepted exactly when the totals of the units
\* accepted before it, plus its own weight and volume, are within max_weight
\* and max_volume; the selection is the accepted units in the order visited, a
\* skipped unit never entering it.  For units (2, 0.01), (5, 0.02) and budgets
\* 6, 0.03 the selection is the first unit and the totals are (2, 0.01).
C10_SinglePassGreedy ==
    LET order == [k \in 1 .. Len(visited) |-> visited[k].unit] \o pending
    IN  /\ ppc \in {"loop", "done"} =>
              /\ Len(order) = Len(all_cargo)
              /\ { order[k] : k \in 1 .. Len(order) }
                     = { all_cargo[i] : i \in 1 .. Len(all_cargo) }
              /\ \A j, k \in 1 .. Len(order) :
                     j < k => \/ order[j].weight < order[k].weight
                              \/ /\ order[j].weight = order[k].weight
                                 /\ order[j].volume <= order[k].volume
        /\ \A k \in 1 .. Len(visited) :
              /\ visited[k].total_weight = SumWeights(AcceptedAmong(visited, k - 1))
              /\ visited[k].total_volume = SumVolumes(AcceptedAmong(visited, k - 1))
              /\ visited[k].accepted
                     <=> /\ visited[k].total_weight + visited[k].unit.weight <= max_weight
                         /\ visited[k].total_volume + visited[k].unit.volume <= max_volume
        /\ optimized_cargo = AcceptedAmong(visited, Len(visited))
        /\ ppc = "done" =>
              /\ pending = << >>
              /\ [i \in 1 .. Len(optimized_cargo) |-> optimized_cargo[i].id]
                     = [i \in 1 .. Len(result.optimized_cargo) |-> result.optimized_cargo[i].id]
              /\ (/\ all_cargo = << Cargo(1, 2, 1), Cargo(2, 5, 2) >>
                  /\ max_weight = 6 /\ max_volume = 3)
                     => /\ optimized_cargo = << Cargo(1, 2, 1) >>
                        /\ result.total_weight = 2 /\ result.total_volume = 1

\* the documented call has returned
C10_Witness ==
    /\ ppc = "done"
    /\ all_cargo = << Cargo(1, 2, 1), Cargo(2, 5, 2) >>
    /\ max_weight = 6 /\ max_volume = 3
    /\ Len(visited) = 2 /\ visited[1].accepted /\ ~ visited[2].accepted

\* the unit of a non-empty set that comes first by (weight, volume, position)
FirstOf(S) ==
    CHOOSE x \in S : \A y \in S :
        \/ x.weight < y.weight
        \/ x.weight = y.weight /\ x.volume < y.volume
        \/ x.weight = y.weight /\ x.volume = y.volume /\ x.id <= y.id

\* the units of a set in ascending (weight, volume) order, equal keys in the
\* order of the input
RECURSIVE InInputOrder(_)
InInputOrder(S) ==
    IF S = {} THEN << >> ELSE << FirstOf(S) >> \o InInputOrder(S \ {FirstOf(S)})

\* the single pass over a sequence of units, as a function of the sequence,
\* the budgets and the totals so far: the units accepted
RECURSIVE PassOver(_, _, _, _, _)
PassOver(q, tw, tv, mw, mv) ==
    IF q = << >> THEN << >>
    ELSE IF tw + q[1].weight <= mw /\ tv + q[1].volume <= mv
         THEN << q[1] >> \o PassOver(Tail(q), tw + q[1].weight, tv + q[1].volume, mw, mv)
    ELSE PassOver(Tail(q), tw, tv, mw, mv)

\* what a call must return, as a function of its three inputs alone
PlanOf(table, mw, mv) ==
    PassOver(InInputOrder({ table[i] : i \in 1 .. Len(table) }), 0, 0, mw, mv)

\* C11 (SpecPlan): the returned selection and totals are a function of the
\* input sequence and the two budgets alone, so two calls with the same inputs
\* return the same; units of equal (weight, volume) are visited in the order
\* of the input, which fixes the selection among them.
C11_ResultFunctionOfInput ==
    /\ ppc \in {"loop", "done"} =>
          [k \in 1 .. Len(visited) |-> visited[k].unit] \o pending
              = InInputOrder({ all_cargo[i] : i \in 1 .. Len(all_cargo) })
    /\ ppc = "done" =>
          /\ optimized_cargo = PlanOf(all_cargo, max_weight, max_volume)
          /\ [i \in 1 .. Len(result.optimized_cargo) |-> result.optimized_cargo[i].id]
                 = [i \in 1 .. Len(optimized_cargo) |-> optimized_cargo[i].id]
          /\ result.total_weight = SumWeights(PlanOf(all_cargo, max_weight, max_volume))
          /\ result.total_volume = SumVolumes(PlanOf(all_cargo, max_weight, max_volume))

\* a call has returned one of two units of equal key and left the other out:
\* the one that came first in the input
C11_Witness ==
    /\ ppc = "done"
    /\ \E i, j \in 1 .. Len(all_cargo) :
          /\ i < j
          /\ all_cargo[i].weight = all_cargo[j].weight
          /\ all_cargo[i].volume = all_cargo[j].volume
          /\ \E k \in 1 .. Len(result.optimized_cargo) : result.optimized_cargo[k].id = i
          /\ \A k \in 1 .. Len(result.optimized_cargo) : result.optimized_cargo[k].id /= j

\* C12 (SpecPlan): a call on an empty table returns an empty selection and
\* totals (0, 0) whatever the budgets; a call on a table of one unit whose
\* weight exceeds max_weight or whose volume exceeds max_volume returns the
\* same, and returns: the loop ends in the return, no error is raised.
C12_EmptyAndOversized ==
    LET nothing_fits ==
            \/ all_cargo = << >>
            \/ /\ Len(all_cargo) = 1
               /\ \/ all_cargo[1].weight > max_weight
                  \/ all_cargo[1].volume > max_volume
    IN  /\ (nothing_fits /\ ppc = "done") =>
              /\ result.optimized_cargo = << >>
              /\ result.total_weight = 0
              /\ result.total_volume = 0
        /\ (nothing_fits /\ ppc = "loop") =>
              /\ optimized_cargo = << >>
              /\ pending = << >> => ENABLED PlanReturn

\* a call has returned nothing for a single unit that fits the weight budget
\* and exceeds the volume budget
C12_Witness ==
    /\ ppc = "done"
    /\ Len(all_cargo) = 1
    /\ all_cargo[1].weight <= max_weight
    /\ all_cargo[1].volume > max_volume
    /\ max_volume >= 0
    /\ result.optimized_cargo = << >>

\* C13 (SpecPlan): a call with max_weight < 0 or max_volume < 0 is rejected
\* before any computation: it never sorts, visits a unit or returns a body.
C13_NegativeBudgetRejected ==
    (max_weight < 0 \/ max_volume < 0) => ppc \notin {"loop", "done"}

(***************************************************************************)
(* More claims about the ledger.                                           *)
(***************************************************************************)
\* C14 (SpecSeq): an add_item call with a negative mass or a negative
\* usage_limit is refused and stores nothing, and no live unit ever has a
\* negative usage_limit or a negative remaining_uses.
C14_NegativeCreateRejected ==
    /\ [](\A id \in Live : Unit(id).usage_limit >= 0 /\ Unit(id).remaining_uses >= 0)
    /\ [][\A r \in Requests :
             ((r.mass < 0 \/ r.usage_limit < 0) /\ AddItem(r))
                 => /\ last'.status_code /= 200
                    /\ inventory' = inventory
                    /\ heap' = heap]_vars

\* C15 (SpecSeq): an add_item call with an id that is not live answers 200 and
\* stores exactly one new unit under that id, with remaining_uses =
\* usage_limit and volume = width * height * depth when height > 0, else
\* width * depth (6 for width 2, height 0, depth 3); every unit that was live
\* is unchanged.
C15_FreshCreateInsertsOne ==
    [][\A id \in Ids : \A p \in Profiles, l \in UsageLimits :
          (id \notin Live /\ AddItem(Request(id, p, l)))
              => /\ last'.op = "add_item" /\ last'.item_id = id
                 /\ last'.status_code = 200
                 /\ Live' = Live \cup {id}
                 /\ Len(inventory') = Len(inventory) + 1
                 /\ Len(heap') = Len(heap) + 1
                 /\ Unit(id)'.usage_limit = l
                 /\ Unit(id)'.remaining_uses = l
                 /\ Unit(id)'.volume = IF p.height > 0
                                       THEN p.width * p.height * p.depth
                                       ELSE p.width * p.depth
                 /\ (p.width = 2 /\ p.height = 0 /\ p.depth = 3) => Unit(id)'.volume = 6
                 /\ \A other \in Live :
                       /\ Get(inventory', other) = Get(inventory, other)
                       /\ Unit(other)' = Unit(other)]_vars

\* a unit of width 2, height 0, depth 3 was just added with volume 6, beside a
\* unit that has been used
C15_Witness ==
    \E id \in Live :
        /\ last = Added(id)
        /\ Unit(id).width = 2 /\ Unit(id).height = 0 /\ Unit(id).depth = 3
        /\ Unit(id).volume = 6
        /\ Unit(id).remaining_uses = Unit(id).usage_limit
        /\ \E other \in Live \ {id} : Unit(other).remaining_uses < Unit(other).usage_limit

\* C16 (SpecSeq): a use_item call that answers 200 lowers remaining_uses of
\* its unit by exactly 1 and changes no other field of it, no entry of the
\* ledger and no other unit, so check_storage returns the same totals before
\* and after it.
C16_UseDecrementsOnly ==
    [][\A id \in Ids :
          (UseItem(id) /\ last'.status_code = 200)
              => /\ id \in Live
                 /\ Unit(id)' = [Unit(id) EXCEPT !.remaining_uses = @ - 1]
                 /\ inventory' = inventory
                 /\ Len(heap') = Len(heap)
                 /\ \A other \in Live \ {id} : Unit(other)' = Unit(other)
                 /\ CheckStorageBody(inventory', heap') = CheckStorageBody(inventory, heap)]_vars

\* a unit of height 0 and of non-zero volume was just used, beside another unit
C16_Witness ==
    \E id \in Live :
        /\ last = Used(id, Unit(id))
        /\ Unit(id).height = 0 /\ Unit(id).volume > 0
        /\ Unit(id).remaining_uses < Unit(id).usage_limit
        /\ Live /= {id}

\* C17 (SpecConc): from one state to the next a live unit stays live, stays
\* the same item dict (it is not stored anew) and its remaining_uses does not
\* grow.
C17_LiveUnitNeverGrows ==
    [][\A id \in Live :
          /\ id \in Live'
          /\ Get(inventory', id) = Get(inventory, id)
          /\ Unit(id)'.remaining_uses <= Unit(id).remaining_uses]_vars

\* the ledger after the k-th store of the execution
RECURSIVE LedgerAt(_)
LedgerAt(k) == IF k = 0 THEN << >> ELSE Put(LedgerAt(k - 1), hist.log[k], k)

\* C18 (SpecConc): the totals a check_storage call returns, with add_item
\* calls running beside it, are the sum of the volumes and the sum of the
\* masses of the units of one and the same ledger of the execution.
C18_StatusConsistentSnapshot ==
    (last.op = "check_storage" /\ last.status_code = 200)
        => \E k \in 0 .. Len(hist.log) : last.body = CheckStorageBody(LedgerAt(k), heap)

(***************************************************************************)
(* The claims about the read operations.                                   *)
(***************************************************************************)
\* the live units in insertion order
LiveUnits == Values(inventory, heap)

\* the position of the first live unit of category c
FirstSeen(c) ==
    CHOOSE k \in 1 .. Len(LiveUnits) :
        /\ LiveUnits[k].category = c
        /\ \A j \in 1 .. k - 1 : LiveUnits[j].category /= c

\* the names of the live units of category c, in insertion order
NamesOf(c) ==
    LET units == SelectSeq(LiveUnits, LAMBDA u : u.category = c)
    IN  [i \in 1 .. Len(units) |-> units[i].name]

\* C19 (SpecView): on a non-empty ledger the inventory's optimize_storage
\* returns one group per category of the live units, the groups in the order
\* in which their categories first occur in the ledger, each group with the
\* names of the live units of its category in insertion order; so every live
\* unit is listed once, in the group of its category.
C19_GroupsInFirstSeenOrder ==
    (last.op = "optimize_storage" /\ inventory /= << >>)
        => /\ last.status_code = 200
           /\ last.body.shape = "suggestions"
           /\ LET groups == last.body.suggestions
              IN  /\ { groups[i].category : i \in 1 .. Len(groups) }
                        = { LiveUnits[k].category : k \in 1 .. Len(LiveUnits) }
                  /\ \A i, j \in 1 .. Len(groups) :
                        i < j => FirstSeen(groups[i].category) < FirstSeen(groups[j].category)
                  /\ \A i \in 1 .. Len(groups) :
                        groups[i].items = NamesOf(groups[i].category)

\* groups were just returned for three units whose categories are, in
\* insertion order, one, another, and the first again, the first and the
\* second unit having the same name
C19_Witness ==
    /\ last.op = "optimize_storage"
    /\ Len(LiveUnits) = 3
    /\ LiveUnits[1].category /= LiveUnits[2].category
    /\ LiveUnits[3].category = LiveUnits[1].category
    /\ LiveUnits[1].name = LiveUnits[2].name
    /\ Len(last.body.suggestions) = 2

\* C20 as stated (SpecView): on an empty ledger the inventory's
\* optimize_storage returns what it returns otherwise, with no groups, and
\* view_items returns what it returns otherwise, with no units.
C20_EmptySameShape ==
    /\ (last.op = "optimize_storage" /\ inventory = << >>)
          => /\ last.status_code = 200
             /\ last.body.shape = "suggestions"
             /\ last.body.suggestions = << >>
    /\ (last.op = "view_items" /\ inventory = << >>)
          => /\ last.status_code = 200
             /\ last.body.shape = "inventory"
             /\ last.body.items = << >>

\* C20 as amended (SpecView): on an empty ledger both calls answer 200 with a
\* message only, "No items to optimize." and "No items in the inventory.";
\* on a non-empty ledger they answer 200 with the groups and with the units.
C20_EmptyReturnsMessage ==
    /\ last.op = "optimize_storage"
          => /\ last.status_code = 200
             /\ IF inventory = << >>
                THEN last.body = [shape |-> "message", message |-> "No items to optimize."]
                ELSE last.body.shape = "suggestions" /\ last.body.suggestions /= << >>
    /\ last.op = "view_items"
          => /\ last.status_code = 200
             /\ IF inventory = << >>
                THEN last.body = [shape |-> "message", message |-> "No items in the inventory."]
                ELSE /\ last.body.shape = "inventory"
                     /\ Len(last.body.items) = Len(inventory)

\* the inventory's optimize_storage was just called on the empty ledger
C20_Witness ==
    /\ last.op = "optimize_storage"
    /\ inventory = << >>
    /\ last.body.shape = "message"

(***************************************************************************)
(* More claims about the planner.                                          *)
(***************************************************************************)
\* every unit's weight and volume are >= 0
NonNegativeUnits ==
    \A i \in 1 .. Len(all_cargo) : all_cargo[i].weight >= 0 /\ all_cargo[i].volume >= 0

\* the units of the table that are not in the returned selection
LeftOut ==
    { all_cargo[i] : i \in 1 .. Len(all_cargo) }
        \ { optimized_cargo[j] : j \in 1 .. Len(optimized_cargo) }

\* C21 (SpecPlan): for units of weight and volume >= 0, once the body is
\* returned no unit left out of the selection fits beside it: its weight added
\* to the returned total_weight exceeds max_weight, or its volume added to the
\* returned total_volume exceeds max_volume; this holds of each unit refused
\* when it was visited.
C21_SelectionMaximal ==
    (ppc = "done" /\ NonNegativeUnits)
        => /\ \A c \in LeftOut :
                 \/ result.total_weight + c.weight > max_weight
                 \/ result.total_volume + c.volume > max_volume
           /\ \A i \in 1 .. Len(visited) :
                 ~ visited[i].accepted
                     => /\ visited[i].unit \in LeftOut
                        /\ \/ result.total_weight + visited[i].unit.weight > max_weight
                           \/ result.total_volume + visited[i].unit.volume > max_volume

\* a body was returned for a pass that refused a unit and selected a later
\* one, both budgets being >= 0
C21_Witness ==
    /\ ppc = "done"
    /\ NonNegativeUnits
    /\ max_weight >= 0 /\ max_volume >= 0
    /\ \E i, j \in 1 .. Len(visited) :
          i < j /\ ~ visited[i].accepted /\ visited[j].accepted

(***************************************************************************)
(* The number of uses of a unit.                                           *)
(***************************************************************************)
\* C22 (SpecSeqFair): for a live unit with usage_limit = n >= 1 and k
\* successful uses so far, remaining_uses = n - k and k <= n; a use_item call
\* answers 200 with remaining_uses = n - k - 1 while k < n, and 400 "limit
\* reached" without any change once k = n; and with use_item called again and
\* again the unit reaches remaining_uses = 0 and stays there.
C22_ExactlyNUses ==
    /\ [](\A id \in Live :
             Unit(id).usage_limit >= 1
                 => /\ UsesOf(id) <= Unit(id).usage_limit
                    /\ Unit(id).remaining_uses = Unit(id).usage_limit - UsesOf(id))
    /\ [][\A id \in Live :
             (Unit(id).usage_limit >= 1 /\ UseItem(id))
                 => IF UsesOf(id) < Unit(id).usage_limit
                    THEN /\ last'.status_code = 200
                         /\ last'.remaining = Unit(id).usage_limit - UsesOf(id) - 1
                         /\ Unit(id)'.remaining_uses = last'.remaining
                         /\ UsesOf(id)' = UsesOf(id) + 1
                    ELSE /\ last'.status_code = 400 /\ last'.detail = "limit_reached"
                         /\ Unit(id)' = Unit(id)
                         /\ UsesOf(id)' = UsesOf(id)]_vars
    /\ \A id \in Ids :
          (id \in Live /\ Unit(id).usage_limit >= 1)
              ~> [](id \in Live /\ Unit(id).remaining_uses = 0)

\* a unit with a usage_limit of 2 or more has had exactly that many
\* successful uses, and one more use was just refused
C22_Witness ==
    \E id \in Live :
        /\ Unit(id).usage_limit >= 2
        /\ UsesOf(id) = Unit(id).usage_limit
        /\ Unit(id).remaining_uses = 0
        /\ last = LimitReached(id)

(***************************************************************************)
(* The shape of the planner's body.                                        *)
(***************************************************************************)
\* C23 (SpecChatGPT): the body the planner returns has one record per unit
\* selected, in the order of selection, each with the fields id, name, weight
\* and volume of its unit and with no other field.
C23_ProjectedSelection ==
    ppc = "done"
        => /\ Len(result.optimized_cargo) = Len(optimized_cargo)
           /\ \A i \in 1 .. Len(optimized_cargo) :
                 /\ DOMAIN result.optimized_cargo[i] = {"id", "name", "weight", "volume"}
                 /\ result.optimized_cargo[i].id = optimized_cargo[i].id
                 /\ result.optimized_cargo[i].name = optimized_cargo[i].name
                 /\ result.optimized_cargo[i].weight = optimized_cargo[i].weight
                 /\ result.optimized_cargo[i].volume = optimized_cargo[i].volume

====
